---- MODULE Spec2Model ----
(***************************************************************************)
(* Model of the Nexus Core voice-banking client (the App component):       *)
(* the session lifecycle (startNexusSession / cleanupSession and the       *)
(* callbacks of the live connection), the playback scheduler inside        *)
(* onmessage, the transcription buffer and the tool dispatch that drives    *)
(* the security level.                                                      *)
(*                                                                          *)
(* React state (useState) and refs (useRef) are the variables carrying the *)
(* source's names.  Every click of "START SECURE SESSION" runs a new        *)
(* startNexusSession; the callbacks it hands to ai.live.connect close over  *)
(* the values of that render (securityLevel, isMuted) and over its local    *)
(* constants (inputCtx, outputCtx, stream, sessionPromise).  closure[s]     *)
(* holds them for the s-th invocation.                                      *)
(***************************************************************************)
EXTENDS Integers, Sequences, FiniteSets, TLC

\* ---------------------------------------------------------------- bounds
MaxSessions == 2      \* invocations of startNexusSession in one behaviour
MaxAudioSessions == 1 \* the same, in the behaviours of SpecAudio and SpecDispatch
MaxClock == 2         \* wall-clock ticks (the audio clocks advance with it)
MaxAudio == 2         \* audio payloads delivered in one behaviour
MaxTextAudio == 1     \* the same, among the events of SpecText
MaxTextTurns == 1     \* turnComplete events among the events of SpecText
MaxTurns == 2         \* (user, nexus) pairs the transcript log may hold
MaxText == 1          \* fragments an accumulator may hold

\* ------------------------------------------------------------ enumerations
IDLE == "IDLE"
CONNECTING == "CONNECTING"
ACTIVE == "ACTIVE"
ERROR == "ERROR"
SessionStatus == {IDLE, CONNECTING, ACTIVE, ERROR}

UNAUTHENTICATED == "UNAUTHENTICATED"
VERIFIED == "VERIFIED"
HIGH_RISK == "HIGH_RISK"
SecurityLevel == {UNAUTHENTICATED, VERIFIED, HIGH_RISK}

\* The static record of constants.tsx; its content is never inspected, only
\* whether the state holds it.
MOCK_ACCOUNT == "MOCK_ACCOUNT"
MOCK_TRANSACTIONS == "MOCK_ACCOUNT.transactions"
NoAccount == "null"
NoTransactions == "[]"

Sessions == 1..MaxSessions

VARIABLES
  status,                 \* useState<SessionStatus>
  securityLevel,          \* useState<SecurityLevel>
  transcriptions,         \* useState<TranscriptionItem[]>
  account,                \* useState<AccountInfo | null>
  transactions,           \* useState<Transaction[]>
  isMuted,                \* useState(false)
  sessionRef,             \* 0 = null, else the session whose handle it holds
  audioContextRef,        \* 0 = null, else the invocation whose inputCtx it holds
  outputAudioContextRef,  \* 0 = null, else the invocation whose outputCtx it holds
  nextStartTimeRef,       \* the playback cursor
  activeSourcesRef,       \* the set of started AudioBufferSourceNodes
  transcriptionBuffer,    \* { user, nexus }
  closure,                \* per invocation of startNexusSession: its locals
  started,                \* number of invocations of startNexusSession so far
  clock,                  \* wall clock; a context's currentTime is clock - its t0
  decoding,               \* onmessage invocations suspended at await decodeAudioData
  arrived,                \* number of audio payloads received so far
  played,                 \* the last two source.start(when) calls, in call order
  since,                  \* what moved the cursor since the last source.start
  responses,              \* the sendToolResponse calls of the last tool-call batch
  reported,               \* a report_fraud call has been processed
  heard,                  \* the fragments received since the last turnComplete event
  expected,               \* per turnComplete event received: the texts received up to it
  frames                  \* what became of the last frame each script processor delivered

vars == <<status, securityLevel, transcriptions, account, transactions, isMuted,
          sessionRef, audioContextRef, outputAudioContextRef, nextStartTimeRef,
          activeSourcesRef, transcriptionBuffer, closure, started, clock,
          decoding, arrived, played, since, responses, reported,
          heard, expected, frames>>

uiVars == <<securityLevel, transcriptions, account, transactions, reported>>
audioVars == <<nextStartTimeRef, activeSourcesRef, decoding, arrived, played, since>>
arrivalVars == <<heard, expected>>

Max(a, b) == IF a >= b THEN a ELSE b

\* ------------------------------------------------------------ closures
\* pc: where the invocation of startNexusSession stands
\*   "unused"        not invoked
\*   "getUserMedia"  suspended at await navigator.mediaDevices.getUserMedia
\*   "connect"       ai.live.connect called, suspended at await sessionPromise,
\*                   onopen not yet delivered
\*   "opened"        onopen delivered, await sessionPromise not yet resumed
\*   "resolved"      sessionRef.current assigned, the function has returned
\*   "failed"        the catch block ran
\* conn: the live connection: "none", "open", "closing" (close() was called,
\*   onclose not yet delivered), "closed" (onclose delivered)
\* stopped: "no", or how cleanupSession last found this invocation:
\*   "inflight" (still suspended in startNexusSession) or "done"
UnusedClosure ==
  [pc |-> "unused", conn |-> "none", securityLevel |-> UNAUTHENTICATED,
   isMuted |-> FALSE, inputCtx |-> "none", outputCtx |-> "none",
   stream |-> "none", t0 |-> 0, stopped |-> "no"]

\* No frame delivered yet.
NoFrame == [captured |-> FALSE, muted |-> FALSE, sent |-> FALSE]

InFlight(s) == closure[s].pc \in {"getUserMedia", "connect", "opened"}

\* outCtx.currentTime of the output context created by invocation c
currentTime(c) == clock - closure[c].t0

\* The script processor created in onopen delivers frames while its context runs.
Capturing(s) ==
  /\ closure[s].pc \in {"opened", "resolved"}
  /\ closure[s].inputCtx = "running"

Init ==
  /\ status = IDLE
  /\ securityLevel = UNAUTHENTICATED
  /\ transcriptions = <<>>
  /\ account = NoAccount
  /\ transactions = NoTransactions
  /\ isMuted = FALSE
  /\ sessionRef = 0
  /\ audioContextRef = 0
  /\ outputAudioContextRef = 0
  /\ nextStartTimeRef = 0
  /\ activeSourcesRef = {}
  /\ transcriptionBuffer = [user |-> <<>>, nexus |-> <<>>]
  /\ closure = [s \in Sessions |-> UnusedClosure]
  /\ started = 0
  /\ clock = 0
  /\ decoding = {}
  /\ played = <<>>
  /\ arrived = 0
  /\ since = "init"
  /\ responses = <<>>
  /\ reported = FALSE
  /\ heard = [user |-> <<>>, nexus |-> <<>>]
  /\ expected = <<>>
  /\ frames = [s \in Sessions |-> NoFrame]

\* ------------------------------------------------------------ lifecycle
\* stopAllAudio: every active source is stopped and forgotten, the cursor is reset.
StoppedSources(active) == {}

\* The cursor is set to the output clock instead of 0.
stopAllAudioToClock(why) ==
  /\ activeSourcesRef' = StoppedSources(activeSourcesRef)
  /\ nextStartTimeRef' = clock
  /\ since' = why

\* since: "init", "chained" (only the += duration of the last start), "moved"
\* (an arrival raised it to the clock), "interrupted" or "stopped" (stopAllAudio
\* ran, from an interruption or from cleanupSession).
stopAllAudio(why) ==
  /\ activeSourcesRef' = StoppedSources(activeSourcesRef)
  /\ nextStartTimeRef' = 0
  /\ since' = why

\* The suspended onmessage invocations, marked with what ran while they wait.
Marked(ds, why) ==
  {[d EXCEPT !.stopped = @ \/ why = "stopped",
             !.interrupted = @ \/ why = "interrupted"] : d \in ds}

\* What cleanupSession does to the closures: close() of the handle sessionRef
\* holds, close() of the input context audioContextRef holds.  Nothing else of
\* a closure is reachable from the refs.
CleanedClosure(s) ==
  [closure[s] EXCEPT
     !.conn = IF s = sessionRef /\ @ = "open" THEN "closing" ELSE @,
     !.inputCtx = IF s = audioContextRef THEN "closed" ELSE @,
     !.stopped = IF closure[s].pc = "unused" THEN "no"
                 ELSE IF InFlight(s) THEN "inflight" ELSE "done"]

cleanupSession ==
  /\ closure' = [s \in Sessions |-> CleanedClosure(s)]
  /\ sessionRef' = 0
  /\ audioContextRef' = 0
  /\ stopAllAudio("stopped")
  /\ decoding' = Marked(decoding, "stopped")
  /\ status' = IDLE
  /\ UNCHANGED <<uiVars, isMuted, outputAudioContextRef, transcriptionBuffer,
                 started, clock, arrived, played, responses, arrivalVars, frames>>

\* The TERMINATE CALL button is rendered while status is CONNECTING or ACTIVE.
Stop ==
  /\ status \in {CONNECTING, ACTIVE}
  /\ cleanupSession

\* The callbacks see the security level of a fresh page.
NewClosureUnauthenticated(sec, muted, now) ==
  [pc |-> "getUserMedia", conn |-> "none",
   securityLevel |-> UNAUTHENTICATED, isMuted |-> muted,
   inputCtx |-> "running", outputCtx |-> "running",
   stream |-> "none", t0 |-> now, stopped |-> "no"]

\* The locals of a new invocation of startNexusSession at its first await:
\* the callbacks close over securityLevel and isMuted of the render that
\* created the function, both contexts are created, their clocks start.
NewClosure(sec, muted, now) ==
  [pc |-> "getUserMedia", conn |-> "none",
   securityLevel |-> sec, isMuted |-> muted,
   inputCtx |-> "running", outputCtx |-> "running",
   stream |-> "none", t0 |-> now, stopped |-> "no"]

\* The START button is rendered while status is IDLE or ERROR.  The click runs
\* startNexusSession up to its first await.
Start(limit) ==
  /\ status \in {IDLE, ERROR}
  /\ started < limit
  /\ started' = started + 1
  /\ status' = CONNECTING
  /\ closure' = [closure EXCEPT ![started + 1] =
                    NewClosure(securityLevel, isMuted, clock)]
  /\ audioContextRef' = started + 1
  /\ outputAudioContextRef' = started + 1
  /\ UNCHANGED <<uiVars, isMuted, sessionRef, audioVars, transcriptionBuffer,
                 clock, responses, arrivalVars, frames>>

\* getUserMedia resolves: the stream is held, ai.live.connect is called.
MicGranted(s) ==
  /\ closure[s].pc = "getUserMedia"
  /\ closure' = [closure EXCEPT ![s].pc = "connect", ![s].stream = "live"]
  /\ UNCHANGED <<status, uiVars, isMuted, sessionRef, audioContextRef,
                 outputAudioContextRef, audioVars, transcriptionBuffer,
                 started, clock, responses, arrivalVars, frames>>

\* getUserMedia rejects (permission denied): the catch block.
MicDenied(s) ==
  /\ closure[s].pc = "getUserMedia"
  /\ closure' = [closure EXCEPT ![s].pc = "failed"]
  /\ status' = ERROR
  /\ UNCHANGED <<uiVars, isMuted, sessionRef, audioContextRef,
                 outputAudioContextRef, audioVars, transcriptionBuffer,
                 started, clock, responses, arrivalVars, frames>>

\* sessionPromise rejects (connection failure): the catch block.
ConnectFailed(s) ==
  /\ closure[s].pc = "connect"
  /\ closure' = [closure EXCEPT ![s].pc = "failed"]
  /\ status' = ERROR
  /\ UNCHANGED <<uiVars, isMuted, sessionRef, audioContextRef,
                 outputAudioContextRef, audioVars, transcriptionBuffer,
                 started, clock, responses, arrivalVars, frames>>

onopen(s) ==
  /\ closure[s].pc = "connect"
  /\ closure' = [closure EXCEPT ![s].pc = "opened", ![s].conn = "open"]
  /\ status' = ACTIVE
  /\ UNCHANGED <<uiVars, isMuted, sessionRef, audioContextRef,
                 outputAudioContextRef, audioVars, transcriptionBuffer,
                 started, clock, responses, arrivalVars, frames>>

\* await sessionPromise resumes: sessionRef.current = the session.
ConnectResolved(s) ==
  /\ closure[s].pc = "opened"
  /\ closure' = [closure EXCEPT ![s].pc = "resolved"]
  /\ sessionRef' = s
  /\ UNCHANGED <<status, uiVars, isMuted, audioContextRef,
                 outputAudioContextRef, audioVars, transcriptionBuffer,
                 started, clock, responses, arrivalVars, frames>>

\* onerror is delivered for a connection that has not delivered onclose yet.
onerror(s) ==
  /\ closure[s].conn \in {"open", "closing"}
  /\ status' = ERROR
  /\ UNCHANGED <<uiVars, isMuted, sessionRef, audioContextRef,
                 outputAudioContextRef, audioVars, transcriptionBuffer,
                 closure, started, clock, responses, arrivalVars, frames>>

\* onclose: the remote side closed ("open"), or close() completed ("closing").
onclose(s) ==
  /\ closure[s].conn \in {"open", "closing"}
  /\ closure' = [closure EXCEPT ![s].conn = "closed"]
  /\ status' = IDLE
  /\ UNCHANGED <<uiVars, isMuted, sessionRef, audioContextRef,
                 outputAudioContextRef, audioVars, transcriptionBuffer,
                 started, clock, responses, arrivalVars, frames>>

\* The mute button is rendered beside TERMINATE CALL, while status is
\* CONNECTING or ACTIVE.
ToggleMute ==
  /\ status \in {CONNECTING, ACTIVE}
  /\ isMuted' = ~isMuted
  /\ UNCHANGED <<status, uiVars, sessionRef, audioContextRef,
                 outputAudioContextRef, audioVars, transcriptionBuffer,
                 closure, started, clock, responses, arrivalVars, frames>>

\* scriptProcessor.onaudioprocess of invocation s delivers a frame: it is
\* dropped when the isMuted of that invocation's render is set, else encoded
\* and handed to session.sendRealtimeInput.  muted records the mute flag at
\* the moment of the capture.
onaudioprocess(s) ==
  /\ Capturing(s)
  /\ frames' = [frames EXCEPT ![s] =
                  [captured |-> TRUE, muted |-> isMuted,
                   sent |-> ~closure[s].isMuted]]
  /\ UNCHANGED <<status, uiVars, isMuted, sessionRef, audioContextRef,
                 outputAudioContextRef, audioVars, transcriptionBuffer,
                 closure, started, clock, responses, arrivalVars>>

Lifecycle(limit) ==
  \/ Start(limit)
  \/ Stop
  \/ \E s \in Sessions : MicGranted(s)
  \/ \E s \in Sessions : MicDenied(s)
  \/ \E s \in Sessions : ConnectFailed(s)
  \/ \E s \in Sessions : onopen(s)
  \/ \E s \in Sessions : ConnectResolved(s)
  \/ \E s \in Sessions : onerror(s)
  \/ \E s \in Sessions : onclose(s)

\* ------------------------------------------------------------ inbound events
\* A LiveServerMessage: audio is the duration of the decoded buffer (0: the
\* message carries no inlineData), the transcription texts are sequences of
\* fragments (<<>>: none), toolCall is message.toolCall.functionCalls.
Msg(a, i, u, n, t, f) ==
  [audio |-> a, interrupted |-> i, inputTranscription |-> u,
   outputTranscription |-> n, turnComplete |-> t, toolCall |-> f]

Call(i, nm, c) == [id |-> i, name |-> nm, code |-> c]

VerifyOk(i) == Call(i, "verify_identity", "1234")
VerifyBad(i) == Call(i, "verify_identity", "0000")
GetSummary(i) == Call(i, "get_account_summary", "")
Transfer(i) == Call(i, "transfer_to_human", "")
ReportFraud(i) == Call(i, "report_fraud", "")
Unknown(i) == Call(i, "close_account", "")

ToolBatches ==
  {<<VerifyOk(1)>>, <<VerifyBad(1)>>, <<GetSummary(1)>>, <<Transfer(1)>>,
   <<ReportFraud(1)>>, <<Unknown(1)>>,
   <<VerifyBad(1), GetSummary(2)>>, <<Unknown(1), GetSummary(2)>>}

ToolMessages == {Msg(0, FALSE, <<>>, <<>>, FALSE, b) : b \in ToolBatches}

Durations == {1, 2}

AudioMessages ==
  {Msg(d, i, <<>>, <<>>, FALSE, <<>>) : d \in Durations, i \in BOOLEAN}
    \cup {Msg(0, TRUE, <<>>, <<>>, FALSE, <<>>)}

\* The transcription fragments the events carry: text of the user's speech
\* and text of the model's speech.
UserTexts == {<<>>, <<"hello">>}
NexusTexts == {<<>>, <<"hi there">>}

\* Events of a turn: fragments, with or without an audio payload, with or
\* without the turnComplete flag.
TextMessages ==
  {Msg(a, FALSE, u, n, t, <<>>) :
     a \in {0, 1}, u \in UserTexts, n \in NexusTexts, t \in BOOLEAN}

\* ------------------------------------------------------------ tool dispatch
AuthError == [error |-> "Authentication required before accessing account data."]
Snapshot == [balance |-> MOCK_ACCOUNT, transactions |-> MOCK_TRANSACTIONS]

\* The securityLevel a handler reads is the one of the render in which its
\* startNexusSession was created: sec is closure[s].securityLevel.
ToolResult(fc, sec) ==
  IF fc.name = "verify_identity"
    THEN IF fc.code = "1234" THEN [status |-> "SUCCESS"] ELSE [status |-> "FAILED"]
  ELSE IF fc.name = "get_account_summary"
    THEN IF sec = VERIFIED THEN Snapshot ELSE AuthError
  ELSE IF fc.name = "transfer_to_human" THEN [status |-> "TRANSFERRING"]
  ELSE IF fc.name = "report_fraud" THEN [status |-> "LOCKED"]
  ELSE [result |-> "ok"]

\* The code is not compared: every verify_identity verifies.
SecurityAfterAnyCode(fc, cur) ==
  IF fc.name = "verify_identity" THEN VERIFIED
  ELSE IF fc.name = "report_fraud" THEN HIGH_RISK
  ELSE cur

\* A verified caller is left verified by report_fraud.
SecurityAfterFraudKeepsVerified(fc, cur) ==
  IF fc.name = "verify_identity" /\ fc.code = "1234" THEN VERIFIED
  ELSE IF fc.name = "report_fraud" /\ cur # VERIFIED THEN HIGH_RISK
  ELSE cur

\* setSecurityLevel calls of one function call, applied to level cur.
SecurityAfter(fc, cur) ==
  IF fc.name = "verify_identity" /\ fc.code = "1234" THEN VERIFIED
  ELSE IF fc.name = "report_fraud" THEN HIGH_RISK
  ELSE cur

\* setAccount / setTransactions are reached.
Populates(fc, sec) == fc.name = "get_account_summary" /\ sec = VERIFIED

RECURSIVE SecurityAfterAll(_, _)
SecurityAfterAll(calls, cur) ==
  IF calls = <<>> THEN cur
  ELSE SecurityAfterAll(Tail(calls), SecurityAfter(Head(calls), cur))

\* The names the dispatch tests for.
KnownTools ==
  {"verify_identity", "get_account_summary", "transfer_to_human", "report_fraud"}

\* The loop gives up at the first call whose name it does not know.
ToolResponsesUntilUnknown(calls, sec) ==
  LET known == {k \in 1..Len(calls) :
                  \A j \in 1..k : calls[j].name \in KnownTools}
  IN [k \in known |->
        [id |-> calls[k].id, name |-> calls[k].name,
         result |-> ToolResult(calls[k], sec)]]

\* One sendToolResponse per function call of the batch, in the order of the
\* loop, with the call's id and name.
ToolResponses(calls, sec) ==
  [k \in 1..Len(calls) |->
     [id |-> calls[k].id, name |-> calls[k].name,
      result |-> ToolResult(calls[k], sec)]]

\* The overlay and the blur of the balance card: shown unless VERIFIED.
Masked == securityLevel # VERIFIED

\* The balance card renders account?.balance; without the overlay it is legible.
Disclosed == account # NoAccount /\ ~Masked

\* ------------------------------------------------------------ onmessage
\* The model's entry is put first.
PairNexusFirst(u, n) ==
  <<[sender |-> "nexus", text |-> n], [sender |-> "user", text |-> u]>>

\* The two entries setTranscriptions appends for the texts u and n.
Pair(u, n) == <<[sender |-> "user", text |-> u], [sender |-> "nexus", text |-> n]>>

\* transcriptionBuffer.current = { user: '', nexus: '' }
NoText == [user |-> <<>>, nexus |-> <<>>]

\* Only what the user said is looked at.
FlushedIfUserSpoke(log, u, n) == IF u # <<>> THEN log \o Pair(u, n) ELSE log

\* The transcript log after the turnComplete branch ran on the accumulated
\* texts u and n: if (u || n) the pair is appended.
Flushed(log, u, n) == IF u # <<>> \/ n # <<>> THEN log \o Pair(u, n) ELSE log

\* Steps 2-4 of onmessage (interruption, transcriptions, tool calls) for
\* message m of session s, run on the playback state (active, cursor, snc) that
\* step 1 left; ds are the invocations still suspended.
AfterAudio(s, m, active, cursor, snc, ds) ==
  /\ IF m.interrupted
       THEN /\ stopAllAudio("interrupted")
            /\ decoding' = Marked(ds, "interrupted")
       ELSE /\ activeSourcesRef' = active
            /\ nextStartTimeRef' = cursor
            /\ since' = snc
            /\ decoding' = ds
  /\ LET u == transcriptionBuffer.user \o m.inputTranscription
         n == transcriptionBuffer.nexus \o m.outputTranscription
     IN IF m.turnComplete
          THEN /\ transcriptions' = Flushed(transcriptions, u, n)
               /\ Len(transcriptions') <= 2 * MaxTurns
               /\ transcriptionBuffer' = NoText
          ELSE /\ transcriptionBuffer' = [user |-> u, nexus |-> n]
               /\ Len(u) <= MaxText
               /\ Len(n) <= MaxText
               /\ UNCHANGED transcriptions
  /\ IF m.toolCall # <<>>
       THEN LET sec == closure[s].securityLevel
                hit == \E k \in 1..Len(m.toolCall) : Populates(m.toolCall[k], sec)
            IN /\ securityLevel' = SecurityAfterAll(m.toolCall, securityLevel)
               /\ account' = IF hit THEN MOCK_ACCOUNT ELSE account
               /\ transactions' = IF hit THEN MOCK_TRANSACTIONS ELSE transactions
               /\ responses' = ToolResponses(m.toolCall, sec)
               /\ reported' = (reported \/ \E k \in 1..Len(m.toolCall) :
                                             m.toolCall[k].name = "report_fraud")
       ELSE UNCHANGED <<securityLevel, account, transactions, responses, reported>>

\* The record of what the connection delivered, in the order of delivery: the
\* fragments of each speaker since the last event with the turnComplete flag
\* and, at such an event, the texts of the turn it ends.
Received(m) ==
  LET u == heard.user \o m.inputTranscription
      n == heard.nexus \o m.outputTranscription
  IN /\ Len(u) <= MaxText
     /\ Len(n) <= MaxText
     /\ heard' = IF m.turnComplete THEN [user |-> <<>>, nexus |-> <<>>]
                                   ELSE [user |-> u, nexus |-> n]
     /\ expected' = IF m.turnComplete
                      THEN Append(expected, [user |-> u, nexus |-> n])
                      ELSE expected
     /\ Len(expected') <= MaxTurns

\* onmessage of session s is invoked with m.  With an audio payload it runs to
\* await decodeAudioData and is suspended there; without one it runs to its end.
onmessage(s, m) ==
  /\ closure[s].conn = "open"
  /\ IF m.audio > 0
       THEN /\ arrived < MaxAudio
            /\ arrived' = arrived + 1
            /\ nextStartTimeRef' =
                 Max(nextStartTimeRef, currentTime(outputAudioContextRef))
            /\ since' = IF since = "chained" /\ nextStartTimeRef' # nextStartTimeRef
                          THEN "moved" ELSE since
            /\ decoding' = decoding \cup
                 {[id |-> arrived + 1, s |-> s, outCtx |-> outputAudioContextRef,
                   msg |-> m, stopped |-> FALSE, interrupted |-> FALSE]}
            /\ UNCHANGED <<uiVars, activeSourcesRef, played, transcriptionBuffer,
                           responses>>
       ELSE /\ AfterAudio(s, m, activeSourcesRef, nextStartTimeRef, since, decoding)
            /\ UNCHANGED <<arrived, played>>
  /\ Received(m)
  /\ UNCHANGED <<status, isMuted, sessionRef, audioContextRef,
                 outputAudioContextRef, closure, started, clock, frames>>

\* The time handed to source.start.
StartTime(cursor) == cursor

\* The cursor is left where it was.
AdvanceForgotten(cursor, dur) == cursor

\* The cursor after a buffer of duration dur was started.
Advance(cursor, dur) == cursor + dur

LastTwo(seq) == IF Len(seq) > 2 THEN Tail(seq) ELSE seq

\* decodeAudioData of services/audio-helpers: of the decodes that are pending,
\* the ones that may resolve next.  A decode takes observable time and nothing
\* orders the completions of two of them.
decodeAudioData(pending) == pending

\* decodeAudioData resolves for the suspended invocation d: the source is
\* created, started and added to the active set, then steps 2-4 run.
decoded(d) ==
  /\ d \in decodeAudioData(decoding)
  /\ LET when == StartTime(nextStartTimeRef)
         \* a start time in the past starts the buffer at once
         src == [id |-> d.id, outCtx |-> d.outCtx, when |-> when,
                 ends |-> Max(when, currentTime(d.outCtx)) + d.msg.audio,
                 interrupted |-> d.interrupted]
     IN /\ played' = LastTwo(Append(played,
             [id |-> d.id, outCtx |-> d.outCtx, when |-> when,
              now |-> currentTime(d.outCtx), duration |-> d.msg.audio,
              since |-> since, stopped |-> d.stopped,
              interrupted |-> d.interrupted]))
        /\ AfterAudio(d.s, d.msg, activeSourcesRef \cup {src},
                      Advance(nextStartTimeRef, d.msg.audio), "chained",
                      decoding \ {d})
  /\ UNCHANGED <<status, isMuted, sessionRef, audioContextRef,
                 outputAudioContextRef, closure, started, clock, arrived,
                 arrivalVars, frames>>

\* source.onended: the buffer played to its end on its context.
onended(src) ==
  /\ src \in activeSourcesRef
  /\ currentTime(src.outCtx) >= src.ends
  /\ activeSourcesRef' = activeSourcesRef \ {src}
  /\ UNCHANGED <<status, uiVars, isMuted, sessionRef, audioContextRef,
                 outputAudioContextRef, nextStartTimeRef, transcriptionBuffer,
                 closure, started, clock, decoding, arrived, played, since,
                 responses, arrivalVars, frames>>

\* Time passes; before the first context exists there is no clock to read.
Tick ==
  /\ started > 0
  /\ clock < MaxClock
  /\ clock' = clock + 1
  /\ UNCHANGED <<status, uiVars, isMuted, sessionRef, audioContextRef,
                 outputAudioContextRef, audioVars, transcriptionBuffer,
                 closure, started, responses, arrivalVars, frames>>

\* ------------------------------------------------------------ specifications
\* A session that is granted the microphone and connects: the lifecycle
\* without the failures of the setup and without remote errors.
Connected(limit) ==
  \/ Start(limit)
  \/ Stop
  \/ \E s \in Sessions : MicGranted(s)
  \/ \E s \in Sessions : onopen(s)
  \/ \E s \in Sessions : ConnectResolved(s)
  \/ \E s \in Sessions : onclose(s)

\* Spec: the session lifecycle, with every failure.
Next == Lifecycle(MaxSessions)

Spec == Init /\ [][Next]_vars

\* SpecTools: connected sessions receiving tool-call batches.
NextTools ==
  \/ Connected(MaxSessions)
  \/ \E s \in Sessions, m \in ToolMessages : onmessage(s, m)

SpecTools == Init /\ [][NextTools]_vars

\* SpecDispatch: the tool dispatch of a connected session.
NextDispatch ==
  \/ Connected(MaxAudioSessions)
  \/ \E s \in Sessions, m \in ToolMessages : onmessage(s, m)

SpecDispatch == Init /\ [][NextDispatch]_vars

\* SpecAudio: a connected session receiving audio payloads and interruptions
\* while time passes.
NextAudio ==
  \/ Connected(MaxAudioSessions)
  \/ Tick
  \/ \E s \in Sessions, m \in AudioMessages : onmessage(s, m)
  \/ \E d \in decoding : decoded(d)
  \/ \E src \in activeSourcesRef : onended(src)

SpecAudio == Init /\ [][NextAudio]_vars

\* SpecPlayback: the playback scheduler of one session, from the state the
\* first session is in when startNexusSession has returned (Start, MicGranted,
\* onopen, ConnectResolved), until it is stopped or closed.
InitPlayback ==
  /\ status = ACTIVE
  /\ securityLevel = UNAUTHENTICATED
  /\ transcriptions = <<>>
  /\ account = NoAccount
  /\ transactions = NoTransactions
  /\ isMuted = FALSE
  /\ sessionRef = 1
  /\ audioContextRef = 1
  /\ outputAudioContextRef = 1
  /\ nextStartTimeRef = 0
  /\ activeSourcesRef = {}
  /\ transcriptionBuffer = [user |-> <<>>, nexus |-> <<>>]
  /\ closure = [s \in Sessions |->
       IF s = 1
         THEN [pc |-> "resolved", conn |-> "open",
               securityLevel |-> UNAUTHENTICATED, isMuted |-> FALSE,
               inputCtx |-> "running", outputCtx |-> "running",
               stream |-> "live", t0 |-> 0, stopped |-> "no"]
         ELSE UnusedClosure]
  /\ started = 1
  /\ clock = 0
  /\ decoding = {}
  /\ arrived = 0
  /\ played = <<>>
  /\ since = "init"
  /\ responses = <<>>
  /\ reported = FALSE
  /\ heard = [user |-> <<>>, nexus |-> <<>>]
  /\ expected = <<>>
  /\ frames = [s \in Sessions |-> NoFrame]

NextPlayback ==
  \/ Stop
  \/ Tick
  \/ \E m \in AudioMessages : onmessage(1, m)
  \/ \E d \in decoding : decoded(d)
  \/ \E src \in activeSourcesRef : onended(src)
  \/ onclose(1)

SpecPlayback == InitPlayback /\ [][NextPlayback]_vars

\* SpecCapture: connected sessions capturing microphone frames while the user
\* toggles the mute button.
NextCapture ==
  \/ Connected(MaxSessions)
  \/ ToggleMute
  \/ \E s \in Sessions : onaudioprocess(s)

SpecCapture == Init /\ [][NextCapture]_vars

\* SpecRemoteError: the playback of one session, from the same state, when
\* the connection reports an error.
NextRemoteError ==
  \/ Tick
  \/ \E m \in AudioMessages : onmessage(1, m)
  \/ \E d \in decoding : decoded(d)
  \/ \E src \in activeSourcesRef : onended(src)
  \/ onerror(1)

SpecRemoteError == InitPlayback /\ [][NextRemoteError]_vars

\* What a session may leave behind for the next one: a verification, a fraud
\* report, a fragment of a turn that was not completed.
CarryMessages ==
  {Msg(0, FALSE, <<>>, <<>>, FALSE, <<VerifyOk(1)>>),
   Msg(0, FALSE, <<>>, <<>>, FALSE, <<ReportFraud(1)>>),
   Msg(0, FALSE, <<"hello">>, <<>>, FALSE, <<>>)}

\* SpecCarry: sessions one after the other, each receiving such events.
NextCarry ==
  \/ Connected(MaxSessions)
  \/ \E s \in Sessions, m \in CarryMessages : onmessage(s, m)

SpecCarry == Init /\ [][NextCarry]_vars

\* SpecText: the transcript of one session, from the same state: events with
\* transcription fragments, some of them with audio to decode.
NextText ==
  \/ \E m \in TextMessages :
       /\ m.audio > 0 => arrived < MaxTextAudio
       /\ m.turnComplete => Len(expected) < MaxTextTurns
       /\ onmessage(1, m)
  \/ \E d \in decoding : decoded(d)

SpecText == InitPlayback /\ [][NextText]_vars

\* SpecTranscript: the transcript log of one session, from the same state,
\* over several turns of events without audio, until the session is stopped
\* or closed.
NextTranscript ==
  \/ \E m \in TextMessages : m.audio = 0 /\ onmessage(1, m)
  \/ Stop
  \/ onclose(1)

SpecTranscript == InitPlayback /\ [][NextTranscript]_vars

\* ------------------------------------------------------------ claims
\* Some function call of the batch m carries the name nm.
Calls(m, nm) == \E k \in 1..Len(m.toolCall) : m.toolCall[k].name = nm

\* This step is onmessage handling the tool-call batch b.
Handles(b) ==
  \E s \in Sessions : onmessage(s, Msg(0, FALSE, <<>>, <<>>, FALSE, b))

\* The response sent for the one get_account_summary call of the last batch.
SummaryResult(rs) ==
  {rs[k].result : k \in {j \in 1..Len(rs) : rs[j].name = "get_account_summary"}}

\* C1: once securityLevel is HIGH_RISK a batch with a verify_identity call (and
\* no report_fraud) leaves it HIGH_RISK, and the only change such a batch makes
\* to securityLevel is UNAUTHENTICATED -> VERIFIED.
C1_VerifyKeepsHighRisk ==
  [][\A b \in ToolBatches :
       (Handles(b) /\ Calls([toolCall |-> b], "verify_identity"))
         => /\ securityLevel = HIGH_RISK => securityLevel' = HIGH_RISK
            /\ securityLevel' # securityLevel
                 => securityLevel = UNAUTHENTICATED /\ securityLevel' = VERIFIED]_vars

\* C2: a get_account_summary handled while securityLevel is not VERIFIED is
\* answered with the authentication-required error and leaves account,
\* transactions and status as they were.
C2_SummaryRefusedUnlessVerified ==
  [][(Handles(<<GetSummary(1)>>) /\ securityLevel # VERIFIED)
       => /\ SummaryResult(responses') = {AuthError}
          /\ UNCHANGED <<account, transactions, status>>]_vars

\* C3: a get_account_summary handled while securityLevel is VERIFIED is answered
\* with the mock snapshot, and account and transactions hold the mock data.
C3_SummaryGrantedWhenVerified ==
  [][(Handles(<<GetSummary(1)>>) /\ securityLevel = VERIFIED)
       => /\ SummaryResult(responses') = {Snapshot}
          /\ account' = MOCK_ACCOUNT
          /\ transactions' = MOCK_TRANSACTIONS]_vars

\* C4: once a report_fraud call has been processed, the account data stays
\* masked and every get_account_summary handled afterwards, in this or a later
\* session, is answered with the authentication-required error.
C4_LockdownAfterFraud ==
  [][/\ reported' => ~Disclosed'
     /\ \A b \in ToolBatches :
          (reported /\ Handles(b) /\ Calls([toolCall |-> b], "get_account_summary"))
            => SummaryResult(responses') = {AuthError}]_vars

\* C5: after cleanupSession ran while the latest startNexusSession was still
\* suspended (awaiting the microphone, onopen or the connect promise), and
\* until start is clicked again, status is IDLE, sessionRef holds no session
\* and that invocation's capture is not running.
C5_StopDuringStartStaysIdle ==
  \A s \in Sessions :
    (s = started /\ closure[s].stopped = "inflight")
      => /\ status = IDLE
         /\ sessionRef = 0
         /\ ~Capturing(s)

\* Everything the latest invocation acquired is released.
Released(c) ==
  /\ c.conn # "open"
  /\ c.stream # "live"
  /\ c.inputCtx # "running"
  /\ c.outputCtx # "running"

\* C6: when cleanupSession returns, the session handle is closed and cleared,
\* the media stream is not open, the input and the output context are closed
\* and the active playback set is empty.
C6_StopReleasesEverything ==
  [][Stop => /\ sessionRef' = 0
             /\ activeSourcesRef' = {}
             /\ Released(closure'[started])]_vars

\* C7: once cleanupSession has run on the latest session (its
\* startNexusSession had returned), no source has been started for a payload
\* whose decode was pending at that time and the active playback set is empty.
C7_NoPlaybackAfterStop ==
  (started > 0 /\ closure[started].stopped = "done")
    => /\ \A k \in 1..Len(played) : ~played[k].stopped
       /\ activeSourcesRef = {}

\* cleanupSession has not run.
NeverStopped == \A s \in Sessions : closure[s].stopped = "no"

\* C8: in a session that is not stopped, from the handling of an interruption
\* until the next source.start the active playback set is empty, and when that
\* next source.start is for a payload that arrived after the interruption it
\* is given a time that is not before the output clock read at the call.
C8_InterruptionResetsPlayback ==
  NeverStopped
    => /\ since = "interrupted" => activeSourcesRef = {}
       /\ \A k \in 1..Len(played) :
            (played[k].since = "interrupted" /\ ~played[k].interrupted)
              => played[k].when >= played[k].now

\* C9: in a session that is not stopped, no source is started for a payload
\* whose decode was pending when an interruption was handled, and none of them
\* is in the active playback set.
C9_InterruptionCancelsPendingDecodes ==
  NeverStopped
    => /\ \A k \in 1..Len(played) : ~played[k].interrupted
       /\ \A src \in activeSourcesRef : ~src.interrupted

\* C10: of two consecutive source.start calls with no stopAllAudio between
\* them and no payload arriving with the cursor behind the clock, the second
\* starts exactly where the first buffer ends, and not before it starts.
C10_BurstIsGapFree ==
  (Len(played) = 2 /\ played[2].since = "chained")
    => /\ played[2].when = played[1].when + played[1].duration
       /\ played[2].when >= played[1].when

\* Two buffers of a burst were started, the first of them two ticks long and
\* ahead of the clock.
C10_Witness ==
  /\ Len(played) = 2
  /\ played[2].since = "chained"
  /\ played[1].duration = 2
  /\ played[1].when > 0
  /\ played[2].when = played[1].when + 2

\* C11: in a session that is neither stopped nor interrupted, of two payloads
\* started one after the other (no other change of the cursor between the
\* two starts) the one that arrived first is not given the later start time,
\* whatever the order in which their decodes complete.
C11_ArrivalOrderIsStartOrder ==
  (/\ NeverStopped
   /\ Len(played) = 2
   /\ played[2].since = "chained"
   /\ \A k \in 1..2 : ~played[k].interrupted)
    => \A j, k \in 1..2 :
         played[j].id < played[k].id => played[j].when <= played[k].when

\* This step runs the transcription handling of event m: onmessage called with
\* m when it has no audio, the resumption after the decode when it has.
Transcribes(m) ==
  \/ m.audio = 0 /\ onmessage(1, m)
  \/ \E d \in decoding : d.msg = m /\ decoded(d)

\* C12 as stated: every event with the turnComplete flag has appended one
\* (user, nexus) pair, whatever the accumulated texts were, and left both
\* accumulators empty (already when no event carried audio, so that every
\* event delivered has been handled to its end).
C12_EveryTurnCompleteAppendsPair ==
  arrived = 0
    => /\ Len(transcriptions) = 2 * Len(expected)
       /\ heard = NoText => transcriptionBuffer = NoText

\* C12, amended: the handling of an event with the turnComplete flag leaves
\* both accumulators empty; when at least one accumulated text is not empty
\* it appends exactly one (user, nexus) pair carrying them, in that order,
\* also when the other is empty; when both are empty it appends nothing.
C12_TurnCompleteAppendsPairUnlessEmpty ==
  [][\A m \in TextMessages :
       (Transcribes(m) /\ m.turnComplete)
         => LET u == transcriptionBuffer.user \o m.inputTranscription
                n == transcriptionBuffer.nexus \o m.outputTranscription
            IN /\ transcriptionBuffer' = NoText
               /\ (u # <<>> \/ n # <<>>)
                    => transcriptions' = transcriptions \o Pair(u, n)
               /\ (u = <<>> /\ n = <<>>)
                    => transcriptions' = transcriptions]_vars

\* A pair was appended for a turn in which only the model spoke, and the
\* accumulators are empty again.
C12_Witness ==
  /\ transcriptions = Pair(<<>>, <<"hi there">>)
  /\ transcriptionBuffer = NoText
  /\ expected # <<>>

\* C13: the pairs of the transcript log are, in order, the texts of the turns
\* as the connection delivered them: each speaker's fragments between two
\* events with the turnComplete flag, in the order of delivery, those of the
\* flagged event included.
C13_FlushedTextIsWhatArrived ==
  LET turns == SelectSeq(expected, LAMBDA e : e # NoText)
  IN /\ Len(transcriptions) <= 2 * Len(turns)
     /\ decoding = {} => Len(transcriptions) = 2 * Len(turns)
     /\ \A k \in 1..Len(turns) :
          2 * k <= Len(transcriptions)
            => /\ transcriptions[2 * k - 1].text = turns[k].user
               /\ transcriptions[2 * k].text = turns[k].nexus

\* The response sent for the call fc with the result res.
Response(fc, res) == [id |-> fc.id, name |-> fc.name, result |-> res]

\* C14: a verify_identity with a code other than the secret is answered FAILED
\* and leaves securityLevel, account and transactions as they were; the batch
\* [verify_identity(wrong code), get_account_summary] handled while
\* UNAUTHENTICATED is answered FAILED, then the authentication-required
\* error, and securityLevel stays UNAUTHENTICATED.
C14_WrongCodeChangesNothing ==
  [][/\ Handles(<<VerifyBad(1)>>)
          => /\ responses' = <<Response(VerifyBad(1), [status |-> "FAILED"])>>
             /\ UNCHANGED <<securityLevel, account, transactions>>
     /\ (Handles(<<VerifyBad(1), GetSummary(2)>>) /\ securityLevel = UNAUTHENTICATED)
          => /\ responses' = <<Response(VerifyBad(1), [status |-> "FAILED"]),
                               Response(GetSummary(2), AuthError)>>
             /\ securityLevel' = UNAUTHENTICATED
             /\ UNCHANGED <<account, transactions>>]_vars

\* The batch was handled while UNAUTHENTICATED.
C14_Witness ==
  /\ responses = <<Response(VerifyBad(1), [status |-> "FAILED"]),
                   Response(GetSummary(2), AuthError)>>
  /\ securityLevel = UNAUTHENTICATED
  /\ account = NoAccount

\* C15: a report_fraud call leaves securityLevel HIGH_RISK whatever it was,
\* and is answered with the lockdown acknowledgment.
C15_FraudAlwaysLocks ==
  [][Handles(<<ReportFraud(1)>>)
       => /\ securityLevel' = HIGH_RISK
          /\ responses' = <<Response(ReportFraud(1), [status |-> "LOCKED"])>>
          /\ reported']_vars

\* report_fraud was handled and answered.
C15_Witness ==
  /\ securityLevel = HIGH_RISK
  /\ responses = <<Response(ReportFraud(1), [status |-> "LOCKED"])>>
  /\ reported

\* C16: when the setup of startNexusSession fails (getUserMedia rejects
\* after the audio contexts were created, or the connection fails after the
\* stream was acquired) and no stop was clicked meanwhile, status is ERROR
\* and the contexts and the stream of that invocation are released.
C16_FailedStartReleasesResources ==
  [][\A s \in Sessions :
       ((MicDenied(s) \/ ConnectFailed(s)) /\ closure[s].stopped = "no")
         => /\ status' = ERROR
            /\ Released(closure'[s])]_vars

\* C17: a frame is sent if and only if the mute flag was not set at the
\* moment it was captured.
C17_FrameSentIffNotMuted ==
  \A s \in Sessions :
    frames[s].captured => (frames[s].sent <=> ~frames[s].muted)

\* C18: the handling of a tool-call batch sends exactly one response per
\* call, the k-th with the id and the name of the k-th call; a call with an
\* unknown name is answered with the default result "ok", and the calls after
\* it are answered as they are on their own.
C18_OneResponsePerCall ==
  [][\A b \in ToolBatches :
       Handles(b)
         => /\ Len(responses') = Len(b)
            /\ \A k \in 1..Len(b) :
                 /\ responses'[k].id = b[k].id
                 /\ responses'[k].name = b[k].name
                 /\ b[k].name \notin KnownTools
                      => responses'[k].result = [result |-> "ok"]
                 /\ b[k].name = "get_account_summary"
                      => responses'[k].result \in {Snapshot, AuthError}]_vars

\* The batch [unknown tool, get_account_summary] was answered call by call.
C18_Witness ==
  responses = <<Response(Unknown(1), [result |-> "ok"]),
                Response(GetSummary(2), AuthError)>>

\* Invocation c of startNexusSession holds the microphone stream or an
\* audio context.
Holding(c) ==
  \/ c.stream = "live"
  \/ c.inputCtx = "running"
  \/ c.outputCtx = "running"

\* C19: at most one invocation of startNexusSession holds a stream or audio
\* contexts at a time (already when no stop was clicked and no setup failed:
\* the earlier session was ended by the remote side).
C19_OneSessionHoldsResources ==
  (/\ NeverStopped
   /\ \A s \in Sessions : closure[s].pc # "failed")
    => Cardinality({s \in Sessions : Holding(closure[s])}) <= 1

\* C20: when the connection of the active session reports an error, status
\* becomes ERROR and no source is left in the active playback set.
C20_RemoteErrorAbandonsAudio ==
  [][(onerror(1) /\ status = ACTIVE)
       => /\ status' = ERROR
          /\ activeSourcesRef' = {}]_vars

\* No cleanupSession ran while a startNexusSession was suspended.
NoStopInFlight == \A s \in Sessions : closure[s].stopped # "inflight"

\* C21: when cleanupSession or a remote close ends a session (one whose
\* startNexusSession was not stopped on its way), account is null afterwards.
C21_AccountClearedOnTeardown ==
  [][(/\ NoStopInFlight
      /\ Stop \/ \E s \in Sessions : closure[s].conn = "open" /\ onclose(s))
       => account' = NoAccount]_vars

\* C22: in the state a cleanupSession leaves (nothing but time has passed
\* since), status is IDLE, the active set is empty, the cursor is 0, the
\* handle and the input context refs are null, and a second cleanupSession
\* changes no variable.
C22_StopIsIdempotent ==
  since = "stopped"
    => /\ status = IDLE
       /\ activeSourcesRef = {}
       /\ nextStartTimeRef = 0
       /\ sessionRef = 0
       /\ audioContextRef = 0
       /\ ~ENABLED (cleanupSession /\ vars' # vars)

\* cleanupSession ran while a decode was pending and time has passed: a
\* second call can run.
C22_Witness ==
  /\ since = "stopped"
  /\ decoding # {}
  /\ clock > 0
  /\ ENABLED cleanupSession

\* The changes of status the lifecycle allows.
LifecycleStep(from, to) ==
  \/ from \in {IDLE, ERROR} /\ to = CONNECTING
  \/ from = CONNECTING /\ to \in {ACTIVE, ERROR}
  \/ from = ACTIVE /\ to = ERROR
  \/ from # IDLE /\ to = IDLE

\* C23: every change of status is a step of the lifecycle: IDLE or ERROR to
\* CONNECTING, CONNECTING to ACTIVE or ERROR, ACTIVE to ERROR, any other than
\* IDLE to IDLE.
C23_StatusFollowsLifecycle ==
  [][status' # status => LifecycleStep(status, status')]_vars

\* The log has even length and its entries alternate user, nexus.
Paired(log) ==
  /\ Len(log) % 2 = 0
  /\ \A k \in 1..Len(log) :
       log[k].sender = IF k % 2 = 1 THEN "user" ELSE "nexus"

\* C24: the transcript log always has even length with entries alternating
\* user, nexus, and every step leaves it as it is or extends it at its end
\* by one (user, nexus) pair, the earlier entries untouched.
C24_LogIsAppendOnlyAndPaired ==
  /\ []Paired(transcriptions)
  /\ [][\/ transcriptions' = transcriptions
        \/ /\ Len(transcriptions') = Len(transcriptions) + 2
           /\ SubSeq(transcriptions', 1, Len(transcriptions)) = transcriptions
           /\ Paired(transcriptions')]_vars

\* A second pair was appended behind a pair with text on both sides, and the
\* session was stopped.
C24_Witness ==
  /\ Len(transcriptions) = 4
  /\ transcriptions[1].text # <<>>
  /\ transcriptions[2].text # <<>>
  /\ status = IDLE

\* C25: once a session was stopped (its startNexusSession had returned) and
\* start was clicked again, a callback of the stopped session changes neither
\* status nor the playback set, the accumulators or securityLevel.
C25_StoppedSessionIsSilent ==
  [][\A s \in Sessions :
       (/\ s < started
        /\ closure[s].stopped = "done"
        /\ onclose(s) \/ onerror(s) \/ onopen(s))
         => UNCHANGED <<status, activeSourcesRef, transcriptionBuffer,
                        securityLevel>>]_vars

\* C26: whenever status is IDLE (here: without any stop click, so that IDLE
\* was reached by a remote close) sessionRef holds no session, no script
\* processor is delivering frames and the active playback set is empty.
C26_IdleHoldsNothing ==
  (status = IDLE /\ NeverStopped)
    => /\ sessionRef = 0
       /\ \A s \in Sessions : ~Capturing(s)
       /\ activeSourcesRef = {}

\* C27: cleanupSession and startNexusSession leave securityLevel and the
\* fragment accumulators as they are, and the callbacks of the new session
\* see the securityLevel the earlier session left.
C27_StopAndStartCarryState ==
  [][/\ Stop => UNCHANGED <<securityLevel, transcriptionBuffer>>
     /\ Start(MaxSessions)
          => /\ UNCHANGED <<securityLevel, transcriptionBuffer>>
             /\ closure'[started'].securityLevel = securityLevel]_vars

\* A second session was started after a session that verified the caller and
\* left a fragment in the accumulator: both are still there.
C27_Witness ==
  /\ started = 2
  /\ closure[1].stopped = "done"
  /\ securityLevel = VERIFIED
  /\ closure[2].securityLevel = VERIFIED
  /\ transcriptionBuffer.user = <<"hello">>

\* The state SpecPlayback starts in is a state of the program: it is reached
\* under Spec and SpecAudio.
PlaybackStartReached == InitPlayback

====
